---- MODULE Spec2Model ----
(***************************************************************************)
(* A model of cliquetis.py: the argument expander and runner (Action), the *)
(* tabular data model (TabularData), the hierarchical renderer             *)
(* (TreeViewer.display_data) and the control flow of main().               *)
(*                                                                         *)
(* Python strings and byte strings are sequences of one-character strings. *)
(* A Python value is a record of one field, named after its Python type.  *)
(***************************************************************************)
EXTENDS Integers, Sequences, FiniteSets, TLC

VARIABLES
    pc,         \* position of the program / of the operation under study
    form,       \* the command and the options of the first action
    configuration, \* the output configuration of the first action
    action,     \* Application.action / the Action object: NoAction or a record
    expanded,   \* the argument vector built by Action.run
    stdout,     \* the captured standard output of the child process
    result,     \* the value returned by Action.run
    viewer,     \* the result viewer window created by main
    error,      \* the exception that propagated, "none" if none
    td,         \* a TabularData object
    yielded,    \* the pairs each generator of insertable_items has yielded
    gens,       \* the generators of insertable_items: where each one stands
    tv,         \* a TreeViewer object: data, collapsed, key_values
    tree        \* the insertions received by the tree widget, in order

vars ==
    <<pc, form, configuration, action, expanded, stdout, result, viewer,
      error, td, yielded, gens, tv, tree>>

(***************************************************************************)
(* Bounds of the model.                                                    *)
(***************************************************************************)
MaxArgs == 2        \* templates in a command
MaxRows == 2        \* data rows of a table given to import_data
MaxCalls == 2       \* calls of insertable_items on one table
MaxElems == 2       \* elements of a JSON array, keys of a JSON object
MaxOut == 3         \* bytes of captured output in the main flow

(***************************************************************************)
(* Python values.                                                          *)
(***************************************************************************)
PyNone == [none |-> <<>>]
PyStr(s) == [str |-> s]
PyInt(n) == [int |-> n]
PyList(s) == [list |-> s]
PyDict(s) == [dict |-> s]
PyBytes(s) == [bytes |-> s]

\* The type of a Python value and its payload.
TypeOf(value) == CHOOSE type \in DOMAIN value : TRUE
ValueOf(value) == value[TypeOf(value)]

Range(s) == {s[i] : i \in 1..Len(s)}

\* All sequences over S of length lo..hi.
SeqsBetween(S, lo, hi) == UNION {[1..n -> S] : n \in lo..hi}

\* Sequences without a repeated element (the key orders of a mapping).
Injective(s) == \A i, j \in 1..Len(s) : s[i] = s[j] => i = j

\* str.startswith / the test of str.replace at one position.
StartsWith(s, prefix) ==
    /\ Len(prefix) <= Len(s)
    /\ SubSeq(s, 1, Len(prefix)) = prefix

Drop(s, n) == SubSeq(s, n + 1, Len(s))

(***************************************************************************)
(* Action.expand and the first statement of Action.run.                    *)
(***************************************************************************)

\* f"{{{value_name}}}"
Token(value_name) == <<"{">> \o value_name \o <<"}">>

\* str.replace(old, new): every non-overlapping occurrence, left to right.
\* old is never empty here: a token has at least its two braces.
RECURSIVE Replace(_, _, _)
Replace(s, old, new) ==
    IF Len(s) < Len(old) THEN s
    ELSE IF StartsWith(s, old)
         THEN new \o Replace(Drop(s, Len(old)), old, new)
         ELSE <<Head(s)>> \o Replace(Tail(s), old, new)

\* The second loop of expand, from the i-th binding on.
RECURSIVE ExpandFrom(_, _, _)
ExpandFrom(argument, values, i) ==
    IF i > Len(values) THEN argument
    ELSE LET value == IF values[i].value = PyNone THEN <<>>
                      ELSE ValueOf(values[i].value)
         IN ExpandFrom(Replace(argument, Token(values[i].name), value),
                       values, i + 1)

\* The bindings whose token is the whole argument (first loop of expand).
ExactBindings(argument, values) ==
    {i \in 1..Len(values) : argument = Token(values[i].name)}

\* The mutation of ExpandExact that interpolates the bound value as text.
ExpandExactAsText(argument, values) ==
    LET i == CHOOSE k \in ExactBindings(argument, values) :
                 \A m \in ExactBindings(argument, values) : k <= m
    IN PyStr(IF values[i].value = PyNone THEN <<>>
             ELSE ValueOf(values[i].value))

\* What the first loop of expand returns when it returns.
ExpandExact(argument, values) ==
    LET i == CHOOSE k \in ExactBindings(argument, values) :
                 \A m \in ExactBindings(argument, values) : k <= m
    IN values[i].value

\* Action.expand: values is the mapping in iteration order, a sequence of
\* [name, value]; the argument is a string; the result a Python value.
Expand(argument, values) ==
    IF ExactBindings(argument, values) # {}
    THEN ExpandExact(argument, values)
    ELSE PyStr(ExpandFrom(argument, values, 1))

\* expanded = [v for v in map(self.expand, self.arguments) if v is not None]
ExpandedVector(arguments, values) ==
    LET IsKept(value) == value # PyNone
    IN SelectSeq([i \in 1..Len(arguments) |-> Expand(arguments[i], values)],
                 IsKept)

(***************************************************************************)
(* Python sequences: indices count from 0, a negative index counts from    *)
(* the end, an index outside -len..len-1 raises IndexError.                *)
(***************************************************************************)
IndexInRange(s, index) == -Len(s) <= index /\ index < Len(s)

\* The position in 1..Len(s) of the Python index.
PositionOf(s, index) == IF index < 0 THEN Len(s) + index + 1 ELSE index + 1

\* s[index]
ItemAt(s, index) == s[PositionOf(s, index)]

\* del s[index]
DeleteAt(s, index) ==
    SubSeq(s, 1, PositionOf(s, index) - 1)
        \o SubSeq(s, PositionOf(s, index) + 1, Len(s))

(***************************************************************************)
(* TabularData.                                                            *)
(***************************************************************************)
NUMBER == 0
STRING_TYPE == 1

\* TabularData()
EmptyTabularData ==
    [headings |-> <<>>, data |-> PyList(<<>>), width |-> 0,
     column_types |-> <<>>, maximum_lengths |-> <<>>]

\* The control characters that a string writes as they are: vertical tab,
\* file separator, group separator, record separator, unit separator.
Control ==
    [VT |-> "", FS |-> "", GS |-> "", RS |-> "", US |-> ""]

\* The texts are made of the characters of ASCII. Of these, the ones that
\* str.strip() drops.
Whitespace ==
    {" ", "\t", "\n", "\r", "\f", Control.VT, Control.FS, Control.GS,
     Control.RS, Control.US}
Digits == {"0", "1", "2", "3", "4", "5", "6", "7", "8", "9"}

\* s without the characters of `chars` that start it, that end it.
RECURSIVE DropLeading(_, _)
DropLeading(s, chars) ==
    IF s # <<>> /\ Head(s) \in chars THEN DropLeading(Tail(s), chars) ELSE s

RECURSIVE DropTrailing(_, _)
DropTrailing(s, chars) ==
    IF s # <<>> /\ s[Len(s)] \in chars
    THEN DropTrailing(SubSeq(s, 1, Len(s) - 1), chars)
    ELSE s

\* str.lstrip(), str.rstrip(), str.strip()
LStrip(s) == DropLeading(s, Whitespace)

RStrip(s) == DropTrailing(s, Whitespace)

Strip(s) == RStrip(LStrip(s))

\* Digits, where an underscore may stand between two digits.
IsDigitPart(s) ==
    /\ s # <<>>
    /\ \A i \in 1..Len(s) :
          \/ s[i] \in Digits
          \/ /\ s[i] = "_"
             /\ 1 < i /\ i < Len(s)
             /\ s[i - 1] \in Digits /\ s[i + 1] \in Digits

\* Digits with at most one point, digits on one side of it at least, then
\* an optional exponent ("e" or "E", an optional sign, digits): the first
\* i characters are the whole part, the characters up to j the point and
\* the fraction.
IsFloatNumber(s) ==
    \E i \in 0..Len(s) : \E j \in i..Len(s) :
        LET whole == SubSeq(s, 1, i)
            fraction == SubSeq(s, i + 2, j)
            exponent == SubSeq(s, j + 1, Len(s))
            power == Tail(exponent)
        IN /\ whole = <<>> \/ IsDigitPart(whole)
           /\ j > i => /\ s[i + 1] = "."
                       /\ fraction = <<>> \/ IsDigitPart(fraction)
           /\ whole # <<>> \/ fraction # <<>>
           /\ \/ exponent = <<>>
              \/ /\ Head(exponent) \in {"e", "E"}
                 /\ IsDigitPart(IF power # <<>> /\ Head(power) \in {"+", "-"}
                                THEN Tail(power) ELSE power)

\* float(value) does not raise ValueError: the white space of ASCII around
\* the text is dropped (the separators that str.strip() drops are not white
\* space here), then an optional sign, then a number, or an infinity or a
\* not-a-number in letters of either case.
IsFloat(value) ==
    LET spaces == {" ", "\t", "\n", "\r", "\f", Control.VT}
        stripped == DropTrailing(DropLeading(value, spaces), spaces)
        unsigned == IF stripped # <<>> /\ Head(stripped) \in {"+", "-"}
                    THEN Tail(stripped) ELSE stripped
        LowerOf(char) ==
            CASE char = "A" -> "a" [] char = "F" -> "f" [] char = "I" -> "i"
              [] char = "N" -> "n" [] char = "T" -> "t" [] char = "Y" -> "y"
              [] OTHER -> char
    IN \/ IsFloatNumber(unsigned)
       \/ [i \in 1..Len(unsigned) |-> LowerOf(unsigned[i])]
              \in { <<"i", "n", "f">>, <<"n", "a", "n">>,
                    <<"i", "n", "f", "i", "n", "i", "t", "y">> }

\* The result of an operation that may raise: the value it computed, or the
\* value it had reached when the exception was raised.
Done(value) == [raised |-> "none", value |-> value]
Raised(exception, value) == [raised |-> exception, value |-> value]

\* The mutation of ScanCells that lets a later numeric cell reset a column
\* already typed STRING_TYPE.
RECURSIVE ScanCellsNoSkip(_, _, _)
ScanCellsNoSkip(types, row, column) ==
    IF column >= Len(row) THEN Done(types)
    ELSE IF ~IndexInRange(types, column) THEN Raised("IndexError", types)
    ELSE IF Strip(ItemAt(row, column)) = <<>>
         THEN ScanCellsNoSkip(types, row, column + 1)
    ELSE ScanCellsNoSkip(
             [types EXCEPT ![column + 1] =
                 IF IsFloat(ItemAt(row, column)) THEN NUMBER ELSE STRING_TYPE],
             row, column + 1)

\* The inner loop of _find_column_types on one row, from the cell `column`.
RECURSIVE ScanCells(_, _, _)
ScanCells(types, row, column) ==
    IF column >= Len(row) THEN Done(types)
    ELSE IF ~IndexInRange(types, column) THEN Raised("IndexError", types)
    ELSE IF \/ ItemAt(types, column) = STRING_TYPE
            \/ Strip(ItemAt(row, column)) = <<>>
         THEN ScanCells(types, row, column + 1)
    ELSE ScanCells(
             [types EXCEPT ![column + 1] =
                 IF IsFloat(ItemAt(row, column)) THEN NUMBER ELSE STRING_TYPE],
             row, column + 1)

\* The outer loop of _find_column_types, from the r-th row.
RECURSIVE ScanRows(_, _, _)
ScanRows(types, rows, r) ==
    IF r > Len(rows) THEN Done(types)
    ELSE IF types = [i \in 1..Len(types) |-> STRING_TYPE] THEN Done(types)
    ELSE LET scanned == ScanCells(types, rows[r], 0)
         IN IF scanned.raised # "none" THEN scanned
            ELSE ScanRows(scanned.value, rows, r + 1)

\* TabularData._find_column_types
FindColumnTypes(width, rows) ==
    ScanRows([i \in 1..width |-> NUMBER], rows, 1)

\* The inner loop of _find_maximum_length on one row.
RECURSIVE MaximumOfCells(_, _, _)
MaximumOfCells(maximum, row, column) ==
    IF column >= Len(row) THEN Done(maximum)
    ELSE IF ~IndexInRange(maximum, column) THEN Raised("IndexError", maximum)
    ELSE MaximumOfCells(
             IF Len(ItemAt(row, column)) > ItemAt(maximum, column)
             THEN [maximum EXCEPT ![column + 1] = Len(ItemAt(row, column))]
             ELSE maximum,
             row, column + 1)

RECURSIVE MaximumOfRows(_, _, _)
MaximumOfRows(maximum, rows, r) ==
    IF r > Len(rows) THEN Done(maximum)
    ELSE LET scanned == MaximumOfCells(maximum, rows[r], 0)
         IN IF scanned.raised # "none" THEN scanned
            ELSE MaximumOfRows(scanned.value, rows, r + 1)

\* TabularData._find_maximum_length
FindMaximumLength(headings, rows) ==
    MaximumOfRows([i \in 1..Len(headings) |-> Len(headings[i])], rows, 1)

\* TabularData.import_data on the object `table`: the object afterwards,
\* and the exception raised. An exception leaves the attributes already
\* assigned.
ImportData(table, data) ==
    IF Len(data) < 2 THEN Done(table)
    ELSE LET headings == data[1]
             rows == Tail(data)
             assigned == [table EXCEPT !.headings = headings,
                                       !.data = PyList(rows),
                                       !.width = Len(headings)]
             types == FindColumnTypes(Len(headings), rows)
             maximum == FindMaximumLength(headings, rows)
         IN IF types.raised # "none" THEN Raised(types.raised, assigned)
            ELSE IF maximum.raised # "none"
            THEN Raised(maximum.raised,
                        [assigned EXCEPT !.column_types = types.value])
            ELSE Done([assigned EXCEPT !.column_types = types.value,
                                       !.maximum_lengths = maximum.value])

\* The groups of a dict, a sequence of [key, value] in insertion order.
KeyPosition(groups, key) ==
    CHOOSE g \in 1..Len(groups) : groups[g].key = key

HasKey(groups, key) == \E g \in 1..Len(groups) : groups[g].key = key

\* The mutation of GroupRows that leaves the grouping cell in the row.
RECURSIVE GroupRowsKeepCell(_, _, _, _)
GroupRowsKeepCell(rows, column, r, groups) ==
    IF r > Len(rows) THEN Done([rows |-> rows, groups |-> groups])
    ELSE IF ~IndexInRange(rows[r], column)
    THEN Raised("IndexError", [rows |-> rows, groups |-> groups])
    ELSE LET group_name == ItemAt(rows[r], column)
             row == rows[r]
         IN GroupRowsKeepCell(
                rows, column, r + 1,
                IF HasKey(groups, group_name)
                THEN [groups EXCEPT ![KeyPosition(groups, group_name)].value =
                         Append(@, row)]
                ELSE Append(groups, [key |-> group_name, value |-> <<row>>]))

\* The loop of group_by from the r-th row: each row loses its cell in
\* place and joins its group, a new group when the name is new.
RECURSIVE GroupRows(_, _, _, _)
GroupRows(rows, column, r, groups) ==
    IF r > Len(rows) THEN Done([rows |-> rows, groups |-> groups])
    ELSE IF ~IndexInRange(rows[r], column)
    THEN Raised("IndexError", [rows |-> rows, groups |-> groups])
    ELSE LET group_name == ItemAt(rows[r], column)
             row == DeleteAt(rows[r], column)
         IN GroupRows(
                [rows EXCEPT ![r] = row], column, r + 1,
                IF HasKey(groups, group_name)
                THEN [groups EXCEPT ![KeyPosition(groups, group_name)].value =
                         Append(@, row)]
                ELSE Append(groups, [key |-> group_name, value |-> <<row>>]))

\* The loop of group_by over data that is a dict already: `for row in
\* self.data` gives the keys, and a key is a str, which has no item
\* deletion.
GroupKeys(groups, column) ==
    IF groups = <<>> THEN Done([rows |-> <<>>, groups |-> <<>>])
    ELSE IF ~IndexInRange(groups[1].key, column)
    THEN Raised("IndexError", [rows |-> <<>>, groups |-> <<>>])
    ELSE Raised("TypeError", [rows |-> <<>>, groups |-> <<>>])

\* TabularData.group_by.
GroupBy(table, column) ==
    LET grouped == IF TypeOf(table.data) = "dict"
                   THEN GroupKeys(ValueOf(table.data), column)
                   ELSE GroupRows(ValueOf(table.data), column, 1, <<>>)
        rowsDone == IF TypeOf(table.data) = "dict" THEN table
                    ELSE [table EXCEPT !.data = PyList(grouped.value.rows)]
    IN IF grouped.raised # "none" THEN Raised(grouped.raised, rowsDone)
       ELSE IF ~IndexInRange(table.headings, column)
       THEN Raised("IndexError", rowsDone)
       ELSE LET regrouped ==
                    [rowsDone EXCEPT
                        !.headings = DeleteAt(@, column),
                        !.data = PyDict(grouped.value.groups)]
            IN IF ~IndexInRange(table.maximum_lengths, column)
               THEN Raised("IndexError", regrouped)
               ELSE IF ~IndexInRange(table.column_types, column)
               THEN Raised("IndexError",
                           [regrouped EXCEPT
                               !.maximum_lengths = DeleteAt(@, column)])
               ELSE Done([regrouped EXCEPT
                             !.maximum_lengths = DeleteAt(@, column),
                             !.column_types = DeleteAt(@, column)])

(***************************************************************************)
(* TabularData.insertable_items is a generator: each next() runs it to its *)
(* next yield and leaves it suspended there. A generator is the record of  *)
(* where it stands:                                                        *)
(*   state   "created" (not entered), "group" (suspended at the yield of a *)
(*           group name), "row" (at the yield of a row of a group), "flat" *)
(*           (at the yield of a row of a list), "done";                    *)
(*   source  the dict or the list its outer loop iterates, self.data as it *)
(*           was when the generator was entered;                           *)
(*   group   the place in source of the group reached;                     *)
(*   rows    the list its inner loop iterates, self.data[group] as it was  *)
(*           when the loop began;                                          *)
(*   row     the place of the row reached, in rows or in source;           *)
(*   live    source is still the object that self.data names.              *)
(***************************************************************************)
\* The marker of the root in the pairs yielded: the empty string.
RootMarker == <<>>

NewGenerator ==
    [state |-> "created", source |-> PyNone, group |-> 0, rows |-> <<>>,
     row |-> 0, live |-> FALSE]

\* The generator yields an item and is suspended.
Yield(frame, item) == [raised |-> "none", value |-> frame, item |-> item]

\* The generator ends: StopIteration at its end, or the exception raised
\* in it.
Stop(frame, exception) ==
    [raised |-> exception, value |-> [frame EXCEPT !.state = "done"],
     item |-> PyNone]

\* yield ('', group)
GroupPair(group) == [parent |-> RootMarker, item |-> PyStr(group)]

\* The mutation of RowPair that yields the row under the root.
RowPairUnderRoot(group, row) ==
    [parent |-> RootMarker, item |-> PyList(row)]

\* yield (group, row), and yield ('', row) for a list.
RowPair(group, row) == [parent |-> group, item |-> PyList(row)]

\* for group in self.data: the next key of the dict, or the end.
NextGroup(frame) ==
    LET groups == ValueOf(frame.source)
    IN IF frame.group < Len(groups)
       THEN Yield([frame EXCEPT !.state = "group", !.group = @ + 1],
                  GroupPair(groups[frame.group + 1].key))
       ELSE Stop(frame, "StopIteration")

\* for row in self.data[group]: the next row of the list, or the next
\* group.
NextRow(frame) ==
    IF frame.row < Len(frame.rows)
    THEN Yield([frame EXCEPT !.state = "row", !.row = @ + 1],
               RowPair(ValueOf(frame.source)[frame.group].key,
                       frame.rows[frame.row + 1]))
    ELSE NextGroup(frame)

\* self.data[group], read when the generator resumes after the yield of
\* the group name: `data` is self.data as it is then.
RowsOfGroup(frame, data) ==
    LET group == ValueOf(frame.source)[frame.group].key
    IN IF TypeOf(data) # "dict" THEN Stop(frame, "TypeError")
       ELSE IF ~HasKey(ValueOf(data), group) THEN Stop(frame, "KeyError")
       ELSE NextRow([frame EXCEPT
                        !.rows = ValueOf(data)[KeyPosition(ValueOf(data),
                                                           group)].value,
                        !.row = 0])

\* for row in self.data, a list: the next row, or the end.
NextFlat(frame) ==
    IF frame.row < Len(ValueOf(frame.source))
    THEN Yield([frame EXCEPT !.state = "flat", !.row = @ + 1],
               RowPair(RootMarker, ValueOf(frame.source)[frame.row + 1]))
    ELSE Stop(frame, "StopIteration")

\* next() on a generator of insertable_items, self.data being `data`.
GeneratorNext(frame, data) ==
    IF frame.state = "created"
    THEN IF TypeOf(data) = "dict"
         THEN NextGroup([frame EXCEPT !.source = data, !.live = TRUE])
         ELSE NextFlat([frame EXCEPT !.source = data, !.live = TRUE])
    ELSE IF frame.state = "group" THEN RowsOfGroup(frame, data)
    ELSE IF frame.state = "row" THEN NextRow(frame)
    ELSE IF frame.state = "flat" THEN NextFlat(frame)
    ELSE Stop(frame, "StopIteration")

(***************************************************************************)
(* The columns of a ttk.Treeview as its heading and column commands find   *)
(* them: "#n" is the n-th display column, display column 0 being the tree  *)
(* column and display column n the n-th of the columns; any other text is  *)
(* the name of a column.                                                   *)
(***************************************************************************)
DigitChars == <<"0", "1", "2", "3", "4", "5", "6", "7", "8", "9">>

\* The end of the digits that start at i.
RECURSIVE EndOfDigits(_, _)
EndOfDigits(text, i) ==
    IF i <= Len(text) /\ text[i] \in Digits THEN EndOfDigits(text, i + 1)
    ELSE i

DigitValue(digit) ==
    (CHOOSE d \in 1..Len(DigitChars) : DigitChars[d] = digit) - 1

\* int(digits)
RECURSIVE IntOf(_)
IntOf(digits) ==
    IF digits = <<>> THEN 0
    ELSE 10 * IntOf(SubSeq(digits, 1, Len(digits) - 1))
            + DigitValue(digits[Len(digits)])

\* The white space that a %d of sscanf skips: what isspace() holds.
ScanSpaces == {" ", "\t", "\n", "\r", "\f", Control.VT}

\* An int of C is two halves of 16 bits.
Half == 65536

\* The number that the digits write, modulo 2^32, in two halves.
RECURSIVE HalvesOf(_)
HalvesOf(digits) ==
    IF digits = <<>> THEN [high |-> 0, low |-> 0]
    ELSE LET before == HalvesOf(SubSeq(digits, 1, Len(digits) - 1))
             low == 10 * before.low + DigitValue(digits[Len(digits)])
         IN [high |-> (10 * before.high + low \div Half) % Half,
             low |-> low % Half]

\* The int that %d stores: the long that strtol reads, which is LONG_MAX
\* or LONG_MIN when the number is beyond 2^63 - 1, cut to its 32 low bits
\* and read as a signed number.
ScanInt(negative, digits) ==
    LET LongMax == <<"9", "2", "2", "3", "3", "7", "2", "0", "3", "6", "8",
                     "5", "4", "7", "7", "5", "8", "0", "7">>
        significant == DropLeading(digits, {"0"})
        beyond ==
            \/ Len(significant) > Len(LongMax)
            \/ /\ Len(significant) = Len(LongMax)
               /\ \E i \in 1..Len(LongMax) :
                     /\ DigitValue(significant[i]) > DigitValue(LongMax[i])
                     /\ \A j \in 1..(i - 1) : significant[j] = LongMax[j]
        halves == HalvesOf(digits)
        bits == IF ~negative THEN halves
                ELSE IF halves.low = 0
                THEN [high |-> (Half - halves.high) % Half, low |-> 0]
                ELSE [high |-> Half - 1 - halves.high,
                      low |-> Half - halves.low]
    IN IF beyond THEN IF negative THEN 0 ELSE 0 - 1
       ELSE IF bits.high < Half \div 2 THEN bits.high * Half + bits.low
       ELSE (bits.high - Half) * Half + bits.low

\* sscanf(name, "#%d", &colno): after '#', white space, a sign and digits;
\* what follows the digits is not read.
DisplayNumber(name) ==
    IF name = <<>> \/ Head(name) # "#" THEN [ok |-> FALSE, value |-> 0]
    ELSE LET spaced == DropLeading(Tail(name), ScanSpaces)
             signed == spaced # <<>> /\ Head(spaced) \in {"+", "-"}
             unsigned == IF signed THEN Tail(spaced) ELSE spaced
             digits == SubSeq(unsigned, 1, EndOfDigits(unsigned, 1) - 1)
         IN IF digits = <<>> THEN [ok |-> FALSE, value |-> 0]
            ELSE [ok |-> TRUE,
                  value |-> ScanInt(signed /\ Head(spaced) = "-", digits)]

\* The column that a name designates: of the columns created with the
\* same name, the last one.
ColumnNamed(names, name) ==
    CHOOSE place \in 1..Len(names) :
        /\ names[place] = name
        /\ \A later \in (place + 1)..Len(names) : names[later] # name

\* The display column that heading(name, ...) and column(name, ...) act
\* on, for a name of the columns `names`: 0 is the tree column. A number
\* that is no display column is refused with a TclError.
FindColumn(names, name) ==
    LET number == DisplayNumber(name)
    IN IF ~number.ok THEN Done(ColumnNamed(names, name))
       ELSE IF number.value \in 0..Len(names) THEN Done(number.value)
       ELSE Raised("TclError", 0)

(***************************************************************************)
(* TreeViewer: has_key_values and display_data. A decoded JSON object is a *)
(* PyDict, the sequence of its [key, value] in declared order; an array is *)
(* a PyList. The widget is the sequence of the insertions it received; the *)
(* item id that insert returns names the place of the insertion in it.     *)
(***************************************************************************)
Absent == [absent |-> <<>>]
RootItem == PyStr(<<>>)
ItemId(n) == [item |-> n]

\* tree.insert(parent, END, text=..., values=..., open=...): the widget
\* afterwards. The keyword arguments not given are Absent. A text that is
\* None leaves the option -text without its value in the command sent to
\* Tk, which refuses it with a TclError and inserts nothing.
Insert(widget, parent, text, values, open) ==
    IF TypeOf(text) = "none" THEN Raised("TclError", widget)
    ELSE Done(Append(widget,
                     [parent |-> parent, text |-> text, values |-> values,
                      open |-> open]))

\* The item id returned by the insertion that produced `widget`.
LastItem(widget) == ItemId(Len(widget))

IsContainer(value) == TypeOf(value) \in {"dict", "list"}

\* key in data, data[key]
InDict(data, key) ==
    \E k \in 1..Len(ValueOf(data)) : ValueOf(data)[k].key = key

Lookup(data, key) ==
    LET k == CHOOSE j \in 1..Len(ValueOf(data)) : ValueOf(data)[j].key = key
    IN ValueOf(data)[k].value

\* str(n) for n >= 0
RECURSIVE DecimalOf(_)
DecimalOf(n) ==
    IF n < 10 THEN <<DigitChars[n + 1]>>
    ELSE DecimalOf(n \div 10) \o <<DigitChars[(n % 10) + 1]>>

\* f'{len(value)} item(s)'
ItemCount(value) ==
    PyStr(DecimalOf(Len(ValueOf(value)))
            \o <<" ", "i", "t", "e", "m", "(", "s", ")">>)

\* TreeViewer.has_key_values
HasKeyValues(self, data) ==
    IF TypeOf(data) = "dict" /\ self.key_values # PyNone
    THEN \A i \in 1..Len(ValueOf(self.key_values)) :
            InDict(data, ValueOf(self.key_values)[i])
    ELSE FALSE

\* The insertion of display_data for a value that has the key-values.
KeyValuesNode(self, data, widget, parent) ==
    LET field_key == ValueOf(self.key_values)[1]
        field_values == Tail(ValueOf(self.key_values))
    IN Insert(widget, parent, Lookup(data, field_key),
              [i \in 1..Len(field_values) |-> Lookup(data, field_values[i])],
              Absent)

\* The mutation of ContainerNode that leaves the node collapsed.
ContainerNodeClosed(self, key, value, widget, parent) ==
    Insert(widget, parent, PyStr(key), <<ItemCount(value)>>, FALSE)

\* The insertion of display_data for a key of an object whose value is an
\* object or an array.
ContainerNode(self, key, value, widget, parent) ==
    Insert(widget, parent, PyStr(key), <<ItemCount(value)>>,
           ~self.collapsed)

RECURSIVE DisplayData(_, _, _, _)
RECURSIVE DisplayDict(_, _, _, _, _)
RECURSIVE DisplayList(_, _, _, _, _)

\* The loop of display_data over the keys of an object, from the k-th.
DisplayDict(self, data, widget, parent, k) ==
    IF k > Len(ValueOf(data)) THEN Done(widget)
    ELSE LET key == ValueOf(data)[k].key
             value == ValueOf(data)[k].value
         IN IF IsContainer(value)
            THEN LET inserted == ContainerNode(self, key, value, widget,
                                               parent)
                     shown == DisplayData(self, value, inserted.value,
                                          LastItem(inserted.value))
                 IN IF inserted.raised # "none" THEN inserted
                    ELSE IF shown.raised # "none" THEN shown
                    ELSE DisplayDict(self, data, shown.value, parent, k + 1)
            ELSE LET inserted == Insert(widget, parent, PyStr(key),
                                        <<value>>, Absent)
                 IN IF inserted.raised # "none" THEN inserted
                    ELSE DisplayDict(self, data, inserted.value, parent,
                                     k + 1)

\* The loop of display_data over the elements of an array, from the
\* element of index `index`.
DisplayList(self, data, widget, parent, index) ==
    IF index >= Len(ValueOf(data)) THEN Done(widget)
    ELSE LET row == ItemAt(ValueOf(data), index)
             shown ==
                IF HasKeyValues(self, row)
                THEN DisplayData(self, row, widget, parent)
                ELSE IF IsContainer(row)
                THEN LET inserted == Insert(widget, parent, PyInt(index),
                                            Absent, ~self.collapsed)
                     IN IF inserted.raised # "none" THEN inserted
                        ELSE DisplayData(self, row, inserted.value,
                                         LastItem(inserted.value))
                ELSE Insert(widget, parent, PyInt(index), <<row>>, Absent)
         IN IF shown.raised # "none" THEN shown
            ELSE DisplayList(self, data, shown.value, parent, index + 1)

\* TreeViewer.display_data(data, tree, parent): the widget afterwards.
DisplayData(self, data, widget, parent) ==
    IF HasKeyValues(self, data)
    THEN IF ValueOf(self.key_values) = <<>>
         THEN Raised("IndexError", widget)
         ELSE KeyValuesNode(self, data, widget, parent)
    ELSE IF TypeOf(data) = "dict"
    THEN DisplayDict(self, data, widget, parent, 1)
    ELSE IF TypeOf(data) = "list"
    THEN DisplayList(self, data, widget, parent, 0)
    ELSE Insert(widget, parent, Absent, <<data>>, Absent)

\* TreeViewer.create_widgets, as far as the tree is concerned: the columns
\* are taken from key_values, or the one column 'value' without them, and
\* each gets its heading by its name (l.663-677); then the data is
\* displayed from the root.
TreeHeadings(self) ==
    IF self.key_values # PyNone /\ ValueOf(self.key_values) = <<>>
    THEN Raised("IndexError", <<>>)
    ELSE LET columns == IF self.key_values # PyNone
                        THEN Tail(ValueOf(self.key_values))
                        ELSE << <<"v", "a", "l", "u", "e">> >>
         IN IF \E k \in 1..Len(columns) :
                  FindColumn(columns, columns[k]).raised # "none"
            THEN Raised("TclError", columns)
            ELSE Done(columns)

CreateTree(self) ==
    IF TreeHeadings(self).raised # "none"
    THEN Raised(TreeHeadings(self).raised, <<>>)
    ELSE DisplayData(self, self.data, <<>>, RootItem)

(***************************************************************************)
(* The captured output: bytes.decode('utf-8'), str.splitlines, str.split   *)
(* and json.loads, on the bytes of the model (digits, brackets, tab, line  *)
(* feed, and the byte 0xFF, which no UTF-8 text contains).                 *)
(***************************************************************************)
InvalidByte == "FF"

\* bytes.decode('utf-8')
Decode(bytes) ==
    IF \E i \in 1..Len(bytes) : bytes[i] = InvalidByte
    THEN Raised("UnicodeDecodeError", <<>>)
    ELSE Done(bytes)

\* str.split(separator), for a separator that is not empty: the pieces
\* between the occurrences of the separator, `piece` being the piece begun.
RECURSIVE SplitFrom(_, _, _)
SplitFrom(text, separator, piece) ==
    IF text = <<>> THEN <<piece>>
    ELSE IF StartsWith(text, separator)
    THEN <<piece>> \o SplitFrom(Drop(text, Len(separator)), separator, <<>>)
    ELSE SplitFrom(Tail(text), separator, Append(piece, Head(text)))

\* The lines of the text, `line` being the line begun: a line ends at one
\* of the line ends of ASCII, a carriage return and the line feed after it
\* ending one line; no empty line follows the last line end.
RECURSIVE LinesFrom(_, _)
LinesFrom(text, line) ==
    IF text = <<>> THEN IF line = <<>> THEN <<>> ELSE <<line>>
    ELSE IF StartsWith(text, <<"\r", "\n">>)
    THEN <<line>> \o LinesFrom(Drop(text, 2), <<>>)
    ELSE IF Head(text) \in {"\n", "\r", "\f", Control.VT, Control.FS,
                            Control.GS, Control.RS}
    THEN <<line>> \o LinesFrom(Tail(text), <<>>)
    ELSE LinesFrom(Tail(text), Append(line, Head(text)))

\* str.splitlines()
SplitLines(text) == LinesFrom(text, <<>>)

\* The white space of JSON from i on.
RECURSIVE SkipWhitespace(_, _)
SkipWhitespace(text, i) ==
    IF i <= Len(text) /\ text[i] \in {" ", "\t", "\n", "\r"}
    THEN SkipWhitespace(text, i + 1)
    ELSE i

NoValue == [ok |-> FALSE, value |-> PyNone, next |-> 0]

RECURSIVE ParseValue(_, _)
RECURSIVE ParseElements(_, _, _)

\* The elements of an array after its bracket, an element starting at i.
ParseElements(text, i, elements) ==
    LET element == ParseValue(text, i)
        after == SkipWhitespace(text, element.next)
    IN IF ~element.ok \/ after > Len(text) THEN NoValue
       ELSE IF text[after] = "]"
       THEN [ok |-> TRUE, value |-> PyList(Append(elements, element.value)),
             next |-> after + 1]
       ELSE IF text[after] = ","
       THEN ParseElements(text, SkipWhitespace(text, after + 1),
                          Append(elements, element.value))
       ELSE NoValue

\* The JSON value that starts at i: an integer or an array. The bytes of
\* the model start no other value.
ParseValue(text, i) ==
    IF i > Len(text) THEN NoValue
    ELSE IF text[i] = "0"
    THEN [ok |-> TRUE, value |-> PyInt(0), next |-> i + 1]
    ELSE IF text[i] \in Digits
    THEN [ok |-> TRUE,
          value |-> PyInt(IntOf(SubSeq(text, i, EndOfDigits(text, i) - 1))),
          next |-> EndOfDigits(text, i)]
    ELSE IF text[i] = "["
    THEN LET first == SkipWhitespace(text, i + 1)
         IN IF first <= Len(text) /\ text[first] = "]"
            THEN [ok |-> TRUE, value |-> PyList(<<>>), next |-> first + 1]
            ELSE ParseElements(text, first, <<>>)
    ELSE NoValue

\* json.loads(bytes)
JsonLoads(bytes) ==
    LET text == Decode(bytes)
        parsed == ParseValue(text.value, SkipWhitespace(text.value, 1))
    IN IF text.raised # "none" THEN Raised(text.raised, PyNone)
       ELSE IF parsed.ok /\ SkipWhitespace(text.value, parsed.next)
                               > Len(text.value)
       THEN Done(parsed.value)
       ELSE Raised("JSONDecodeError", PyNone)

\* TabularData.import_raw_data on a new table: each line is split by the
\* separator.
ImportRawData(table, bytes, separator, group_by) ==
    LET text == Decode(bytes)
        lines == SplitLines(text.value)
        rows == [i \in 1..Len(lines) |->
                    SplitFrom(lines[i], separator, <<>>)]
        imported == ImportData(table, rows)
    IN IF text.raised # "none" THEN Raised(text.raised, table)
       ELSE IF lines # <<>> /\ separator = <<>>
       THEN Raised("ValueError", table)
       ELSE IF imported.raised # "none" \/ group_by = PyNone THEN imported
       ELSE GroupBy(imported.value, ValueOf(group_by))

\* Action.run after the child process ended: the result by viewer kind.
Dispatch(config, bytes) ==
    IF "viewer" \notin DOMAIN config THEN Raised("KeyError", PyNone)
    ELSE IF config["viewer"] = "table"
    THEN LET separator == IF "separator" \in DOMAIN config
                          THEN config["separator"] ELSE <<"\t">>
             group_by == IF "group-by" \in DOMAIN config
                         THEN config["group-by"] ELSE PyNone
             table == ImportRawData(EmptyTabularData, bytes, separator,
                                    group_by)
         IN IF table.raised # "none" THEN Raised(table.raised, PyNone)
            ELSE Done([TabularData |-> table.value])
    ELSE IF config["viewer"] = "json" THEN JsonLoads(bytes)
    ELSE Done(PyBytes(bytes))

(***************************************************************************)
(* TableViewer.insert_data.                                                *)
(***************************************************************************)
AVERAGE_CHAR_WIDTH == 10

\* A column of ttk.Treeview(columns=headings) (l.547-551), the tree column
\* included, that no call of heading or column has reached: no heading
\* text, Tk's width and anchor.
DefaultColumn == [name |-> <<>>, width |-> 200, anchor |-> "w"]

RECURSIVE DefaultColumns(_)
DefaultColumns(count) ==
    IF count = 0 THEN <<>>
    ELSE Append(DefaultColumns(count - 1), DefaultColumn)

\* The first loop of insert_data, from the heading `column`: heading(name,
\* text=name) and column(name, width=..., anchor=...) act on the column
\* that Tk finds for the name.
RECURSIVE SetColumns(_, _, _)
SetColumns(table, widget, column) ==
    IF column > Len(table.headings) THEN Done(widget)
    ELSE LET name == table.headings[column]
             found == FindColumn(table.headings, name)
             set == [name |-> name,
                     width |-> table.maximum_lengths[column]
                                  * AVERAGE_CHAR_WIDTH,
                     anchor |-> IF table.column_types[column] = NUMBER
                                THEN "e" ELSE "w"]
         IN IF found.raised # "none" THEN Raised(found.raised, widget)
            ELSE SetColumns(
                     table,
                     IF found.value = 0
                     THEN [widget EXCEPT !.tree_column = set]
                     ELSE [widget EXCEPT !.columns[found.value] = set],
                     column + 1)

\* The headings and the columns of the table widget after the first loop
\* of insert_data, or the TclError it ends by.
TableColumns(table) ==
    SetColumns(table,
               [tree_column |-> DefaultColumn,
                columns |-> DefaultColumns(Len(table.headings))],
               1)

\* The item ids that Tk gives by itself: "I" and the serial number of the
\* widget in hexadecimal, on three digits at least.
RECURSIVE Hex(_)
Hex(n) ==
    LET HexDigits == <<"0", "1", "2", "3", "4", "5", "6", "7", "8", "9",
                       "A", "B", "C", "D", "E", "F">>
    IN IF n < 16 THEN <<HexDigits[n + 1]>>
       ELSE Append(Hex(n \div 16), HexDigits[(n % 16) + 1])

GeneratedId(serial) ==
    LET digits == Hex(serial)
        zeros == IF Len(digits) = 1 THEN <<"0", "0">>
                 ELSE IF Len(digits) = 2 THEN <<"0">> ELSE <<>>
    IN PyStr(<<"I">> \o zeros \o digits)

\* The serial number of the widget: that of its last insertion.
Serial(widget) ==
    IF widget = <<>> THEN 0 ELSE widget[Len(widget)].serial

IsItem(widget, iid) ==
    iid = RootItem \/ \E j \in 1..Len(widget) : widget[j].iid = iid

\* The first serial number from `serial` on whose id names no item.
RECURSIVE FreeSerial(_, _)
FreeSerial(widget, serial) ==
    IF IsItem(widget, GeneratedId(serial))
    THEN FreeSerial(widget, serial + 1)
    ELSE serial

\* The insertion insert_data asks of the table widget for a pair yielded:
\* a group under its own name as item id, a row under an id of Tk's.
TableInsertion(widget, pair) ==
    IF pair.parent = RootMarker /\ TypeOf(pair.item) = "str"
    THEN [parent |-> RootItem, iid |-> pair.item, text |-> pair.item,
          values |-> Absent, serial |-> Serial(widget)]
    ELSE LET serial == FreeSerial(widget, Serial(widget) + 1)
         IN [parent |-> PyStr(pair.parent), iid |-> GeneratedId(serial),
             text |-> Absent, values |-> ValueOf(pair.item),
             serial |-> serial]

\* Treeview.insert refuses, with a TclError, an iid that is an item of the
\* widget already: the root item '', a group inserted before, or a row
\* under the id Tk gave it.
Refused(widget, insertion) == IsItem(widget, insertion.iid)

(***************************************************************************)
(* Input domains of the expander.                                          *)
(***************************************************************************)
NameA == <<"a">>
NameB == <<"b">>
OptionNames == {NameA, NameB}

\* Argument templates: a literal, the two single tokens, tokens embedded in
\* text, two tokens, a token inside braces, a repeated token.
Templates ==
    { <<"-">>,
      Token(NameA),
      Token(NameB),
      <<"-">> \o Token(NameA),
      Token(NameA) \o Token(NameB),
      <<"{">> \o Token(NameA) \o NameB \o <<"}">>,
      Token(NameA) \o <<"-">> \o Token(NameA) }

\* Values read from the form: texts (a text may hold braces) and the None of
\* an unset boolean.
FieldValues ==
    { PyNone, PyStr(<<>>), PyStr(<<"-">>), PyStr(Token(NameA)),
      PyStr(Token(NameB)) }

\* The mappings name -> value, in every iteration order.
Bindings ==
    {b \in SeqsBetween([name : OptionNames, value : FieldValues], 0,
                       Cardinality(OptionNames)) :
        Injective([i \in 1..Len(b) |-> b[i].name])}

Commands == SeqsBetween(Templates, 0, MaxArgs)

NoAction == PyNone
NewAction(arguments, values, config) ==
    [Action |-> [arguments |-> arguments, values |-> values,
                 configuration |-> config]]

MultilineConfig == [viewer |-> "multiline"]

NoTreeViewer == PyNone
NoForm == PyNone
NoOutput == PyNone
NoResult == PyNone
NoViewer == PyNone

(***************************************************************************)
(* Input domains of the program: the configuration file and the output of  *)
(* the child process.                                                      *)
(***************************************************************************)
BooleanOption ==
    [key |-> NameA, type |-> "boolean", true |-> PyStr(<<"-">>),
     false |-> PyNone]
TextOption == [key |-> NameA, type |-> "text"]

\* The command and the options of the first action.
Forms ==
    { [command |-> << <<"-">> >>, options |-> <<>>],
      [command |-> << <<"-">>, Token(NameA) >>, options |-> <<BooleanOption>>],
      [command |-> << Token(NameA) >>, options |-> <<BooleanOption>>],
      [command |-> << <<"-">> \o Token(NameA) >>, options |-> <<TextOption>>] }


\* Cliquetis.get_value on the widget of an option.
WidgetValues(option) ==
    IF option.type = "boolean" THEN {option.true, option.false}
    ELSE { PyStr(<<>>), PyStr(Token(NameA)) }

\* The output configurations: without a viewer, with the three viewers and
\* with another one.
OutputConfigs ==
    { [collapsed |-> FALSE],
      [viewer |-> "multiline"],
      [viewer |-> "text"],
      [viewer |-> "json"],
      [viewer |-> "json", collapsed |-> TRUE],
      [viewer |-> "table"],
      [viewer |-> "table", separator |-> <<"1">>],
      ("viewer" :> "table") @@ ("group-by" :> PyInt(0)),
      ("viewer" :> "table") @@ ("group-by" :> PyInt(1)) }

OutputBytes == {"1", "[", "]", "\t", "\n", InvalidByte}

\* Longer outputs, for the table viewer grouped by its only column: a
\* group named as the item id Tk gives to the row of the group before it,
\* and a group that takes such an id before any row is inserted.
\* Outputs whose heading is the number of a display column: the tree
\* column, no column, the column before it, and the tree column written
\* after a space.
\* Outputs whose only cell is a unit separator, blank for str.strip(), or
\* a unit separator and a digit, no number for float(); outputs whose line
\* ends at a carriage return, alone or before a line feed.
LongOutputs ==
    { <<"\n", "1", "\n", "I", "0", "0", "1">>,
      <<"\n", "I", "0", "0", "1", "\n", "1">>,
      <<"#", "0", "\n", "1">>,
      <<"#", "2", "\n", "1">>,
      <<"\t", "#", "1", "\n", "1">>,
      <<"#", " ", "0", "\n", "1">>,
      <<"1", "\n", Control.US>>,
      <<"1", "\n", Control.US, "1">>,
      <<"1", "\r", "1">>,
      <<"1", "\r", "\n", "1">> }

Outputs == SeqsBetween(OutputBytes, 0, MaxOut) \cup LongOutputs

\* Cliquetis.default
Default(dictionary, key, default_value) ==
    IF key \in DOMAIN dictionary THEN dictionary[key] ELSE default_value

(***************************************************************************)
(* Input domains of the tabular data model.                                *)
(***************************************************************************)
HeadingRows == { <<<<"h">>>>, <<<<"h">>, <<"k", "k">>>> }

\* Cells: empty, blank, numeric, text.
CellValues == { <<>>, <<" ">>, <<"1">>, <<"x">> }

\* A line of output gives at least one cell; a row may be shorter or longer
\* than the headings.
DataRows ==
    LET WidestHeading == CHOOSE n \in {Len(h) : h \in HeadingRows} :
                             \A h \in HeadingRows : Len(h) <= n
    IN SeqsBetween(CellValues, 1, WidestHeading)

\* Cells of white space other than the space, alone (blank) or around a
\* digit: float() reads the number beside a carriage return or a vertical
\* tab, not beside a unit separator.
\* The tables of one column with such a cell, alone or before a number.
SpacedTables ==
    LET SpacedCells ==
            { <<"\r">>, <<Control.VT>>, <<Control.US>>, <<"\r", "1">>,
              <<"1", Control.VT>>, <<Control.US, "1">> }
    IN UNION {{ << <<<<"h">>>>, <<cell>> >>,
                << <<<<"h">>>>, <<cell>>, <<<<"1">>>> >> } :
                 cell \in SpacedCells}

\* What import_data is given: nothing, or the headings and the data rows.
Tables ==
    {<<>>} \cup {<<h>> \o rows : h \in HeadingRows,
                                 rows \in SeqsBetween(DataRows, 0, MaxRows)}
           \cup SpacedTables

\* The tables whose items are taken: two columns, cells empty or not, so
\* that rows share a group or not and a group key may be empty.
ItemTables ==
    LET ItemRows == SeqsBetween({<<>>, <<"x">>}, 2, 2)
    IN {<<<<<<"h">>, <<"k", "k">>>>>> \o rows :
           rows \in SeqsBetween(ItemRows, 0, MaxRows)}

\* Their output configurations: no grouping, or grouping by a column.
ItemConfigs ==
    {[viewer |-> "table"]}
        \cup {("viewer" :> "table") @@ ("group-by" :> PyInt(c)) :
                 c \in {0, 1}}

\* What import_data is given when it is called again on a table: too few
\* rows, or another table.
Reimports ==
    { <<>>,
      << <<<<"h">>, <<"k", "k">>>>, <<<<"x">>, <<"1">>>> >> }

\* The output configurations of a table: without a group-by column, or
\* with one.
TableConfigs ==
    {[viewer |-> "table"]}
        \cup {("viewer" :> "table") @@ ("group-by" :> PyInt(c)) :
                 c \in {-1, 0, 1, 2}}

(***************************************************************************)
(* Input domains of the hierarchical renderer.                             *)
(***************************************************************************)
KeyId == <<"i", "d">>
KeyN == <<"n">>
JsonKeys == {KeyId, KeyN}
\* The scalars: a number, a text and null.
JsonLeaves == {PyInt(1), PyStr(<<"x">>)}
JsonScalars == JsonLeaves \cup {PyNone}

\* The objects with values in V: the keys of an object are distinct.
JsonObjects(V) ==
    {PyDict(d) :
        d \in {s \in SeqsBetween([key : JsonKeys, value : V], 0,
                                 IF MaxElems < Cardinality(JsonKeys)
                                 THEN MaxElems ELSE Cardinality(JsonKeys)) :
                  Injective([i \in 1..Len(s) |-> s[i].key])}}

JsonArrays(V) == {PyList(a) : a \in SeqsBetween(V, 0, MaxElems)}

\* Scalars, the objects of scalars, and the arrays of numbers and texts.
JsonNested ==
    JsonScalars \cup JsonObjects(JsonScalars) \cup JsonArrays(JsonLeaves)

\* Records: the first key-values name alone, or the two names.
JsonRecords ==
    UNION {{PyDict(<<[key |-> KeyId, value |-> v]>>),
            PyDict(<<[key |-> KeyId, value |-> v],
                     [key |-> KeyN, value |-> PyInt(1)]>>)} :
              v \in JsonScalars}

\* An array of records, the only element of an array or the value of the
\* only key of an object.
JsonDeep ==
    UNION {{PyList(<<records>>),
            PyDict(<<[key |-> KeyN, value |-> records]>>)} :
              records \in JsonArrays(JsonRecords)}

\* The decoded outputs: scalars, objects and arrays of nested values, and
\* the arrays of records one level below the root.
JsonValues ==
    JsonScalars \cup JsonObjects(JsonNested) \cup JsonArrays(JsonNested)
        \cup JsonDeep

\* The key-values of the output configuration: none, or a list of names.
KeyValueLists ==
    {PyNone, PyList(<<>>), PyList(<<KeyId>>), PyList(<<KeyId, KeyN>>)}

\* The last viewers name a column as the display column 2, of one column,
\* with or without a form feed before the digit.
TreeViewers ==
    [data : JsonValues, collapsed : BOOLEAN, key_values : KeyValueLists]
        \cup [data : {PyList(<<>>)} \cup JsonRecords, collapsed : {FALSE},
              key_values : {PyList(<<KeyId, <<"#", "2">>>>),
                            PyList(<<KeyId, <<"#", "\f", "2">>>>)}]

(***************************************************************************)
(* Action.run, first statement: the expanded argument vector.              *)
(***************************************************************************)
RunExpand ==
    /\ pc = "run"
    /\ action # NoAction
    /\ expanded' = ExpandedVector(ValueOf(action).arguments,
                                  ValueOf(action).values)
    /\ pc' = "exec"
    /\ UNCHANGED <<form, configuration, action, stdout, result, viewer,
                   error, td, yielded, gens, tv, tree>>

\* An Action built from any command and any bindings, about to run.
InitExpand ==
    /\ pc = "run"
    /\ form = NoForm
    /\ configuration = MultilineConfig
    /\ action \in {NewAction(c, b, MultilineConfig) :
                      c \in Commands, b \in Bindings}
    /\ expanded = <<>>
    /\ stdout = NoOutput
    /\ result = NoResult
    /\ viewer = NoViewer
    /\ error = "none"
    /\ td = EmptyTabularData
    /\ yielded = <<>>
    /\ gens = <<>>
    /\ tv = NoTreeViewer
    /\ tree = <<>>

NextExpand == RunExpand

SpecExpand == InitExpand /\ [][NextExpand]_vars

(***************************************************************************)
(* TabularData: import_data, then group_by when a column is configured (as *)
(* import_raw_data does once the text is split), then insertable_items.    *)
(***************************************************************************)
TableImport ==
    /\ pc = "new"
    /\ \E data \in Tables :
          LET imported == ImportData(td, data)
          IN /\ td' = imported.value
             /\ error' = imported.raised
             /\ pc' = IF imported.raised = "none" THEN "imported" ELSE "raised"
    /\ UNCHANGED <<form, configuration, action, expanded, stdout, result,
                   viewer, yielded, gens, tv, tree>>

\* The generators after import_data(data): with two rows or more self.data
\* is a new list (l.119), and the generators that had captured the former
\* object no longer read the table's data.
RECURSIVE AfterImport(_, _, _)
AfterImport(generators, data, k) ==
    IF k > Len(generators) THEN <<>>
    ELSE <<[generators[k] EXCEPT !.live = @ /\ Len(data) < 2]>>
         \o AfterImport(generators, data, k + 1)

\* import_data called again while a generator of the table is suspended:
\* with two rows or more self.data is a new list, which is the source of no
\* generator. It is called again once only under the same generator.
TableReimport ==
    /\ pc = "ready"
    /\ \E k \in 1..Len(gens) : gens[k].state \in {"group", "row", "flat"}
    /\ \A k \in 1..Len(gens) : gens[k].state = "created" \/ gens[k].live
    /\ \E data \in Reimports :
          LET imported == ImportData(td, data)
          IN /\ td' = imported.value
             /\ error' = imported.raised
             /\ pc' = IF imported.raised = "none" THEN "imported" ELSE "raised"
             /\ gens' = AfterImport(gens, data, 1)
    /\ UNCHANGED <<form, configuration, action, expanded, stdout, result,
                   viewer, yielded, tv, tree>>

\* group_by has put a new dict in self.data: the loop over the rows and
\* the deletion of the heading went through.
DataReplaced(table, column) ==
    /\ IndexInRange(table.headings, column)
    /\ IF TypeOf(table.data) = "dict" THEN ValueOf(table.data) = <<>>
       ELSE GroupRows(ValueOf(table.data), column, 1, <<>>).raised = "none"

\* The generators after group_by: the rows lose their cell in place, so a
\* generator suspended in the list of these rows yields them without it.
RECURSIVE GroupedFrom(_, _, _, _)
GroupedFrom(generators, table, column, k) ==
    IF k > Len(generators) THEN <<>>
    ELSE <<[generators[k] EXCEPT
              !.source =
                  IF generators[k].live /\ TypeOf(table.data) = "list"
                  THEN PyList(GroupRows(ValueOf(table.data), column, 1,
                                        <<>>).value.rows)
                  ELSE @,
              !.live = @ /\ ~DataReplaced(table, column)]>>
         \o GroupedFrom(generators, table, column, k + 1)

AfterGroupBy(generators, table, column) ==
    GroupedFrom(generators, table, column, 1)

TableGroup ==
    /\ pc = "imported"
    /\ LET group_by == Default(configuration, "group-by", PyNone)
       IN IF group_by = PyNone
          THEN /\ pc' = "ready"
               /\ UNCHANGED <<td, error, gens>>
          ELSE LET grouped == GroupBy(td, ValueOf(group_by))
               IN /\ td' = grouped.value
                  /\ error' = grouped.raised
                  /\ pc' = IF grouped.raised = "none" THEN "ready"
                           ELSE "raised"
                  /\ gens' = AfterGroupBy(gens, td, ValueOf(group_by))
    /\ UNCHANGED <<form, configuration, action, expanded, stdout, result,
                   viewer, yielded, tv, tree>>

\* A call of insertable_items: a new generator, which has run nothing yet.
TableItems ==
    /\ pc \in {"imported", "ready"}
    /\ Len(gens) < MaxCalls
    /\ gens' = Append(gens, NewGenerator)
    /\ yielded' = Append(yielded, <<>>)
    /\ UNCHANGED <<pc, form, configuration, action, expanded, stdout,
                   result, viewer, error, td, tv, tree>>

\* next() on one of the generators: it yields one pair, or ends, or raises.
TableItemsNext ==
    /\ pc \in {"imported", "ready"}
    /\ \E k \in 1..Len(gens) :
          /\ gens[k].state # "done"
          /\ LET step == GeneratorNext(gens[k], td.data)
             IN /\ gens' = [gens EXCEPT ![k] = step.value]
                /\ yielded' = IF step.raised = "none"
                              THEN [yielded EXCEPT ![k] = Append(@, step.item)]
                              ELSE yielded
                /\ error' = IF step.raised \in {"none", "StopIteration"}
                            THEN error ELSE step.raised
                /\ pc' = IF step.raised \in {"none", "StopIteration"}
                         THEN pc ELSE "raised"
    /\ UNCHANGED <<form, configuration, action, expanded, stdout, result,
                   viewer, td, tv, tree>>

InitTable ==
    /\ pc = "new"
    /\ form = NoForm
    /\ configuration \in TableConfigs
    /\ action = NoAction
    /\ expanded = <<>>
    /\ stdout = NoOutput
    /\ result = NoResult
    /\ viewer = NoViewer
    /\ error = "none"
    /\ td = EmptyTabularData
    /\ yielded = <<>>
    /\ gens = <<>>
    /\ tv = NoTreeViewer
    /\ tree = <<>>

NextTable == TableImport \/ TableGroup

SpecTable == InitTable /\ [][NextTable]_vars

(***************************************************************************)
(* The callers of insertable_items: a table is imported and grouped, its   *)
(* items are taken by one generator or more, one next() at a time, and     *)
(* import_data may be called again between two of them.                    *)
(***************************************************************************)
ItemsImport ==
    /\ pc = "new"
    /\ \E data \in ItemTables :
          LET imported == ImportData(td, data)
          IN /\ td' = imported.value
             /\ error' = imported.raised
             /\ pc' = IF imported.raised = "none" THEN "imported" ELSE "raised"
    /\ UNCHANGED <<form, configuration, action, expanded, stdout, result,
                   viewer, yielded, gens, tv, tree>>

InitItems ==
    /\ pc = "new"
    /\ form = NoForm
    /\ configuration \in ItemConfigs
    /\ action = NoAction
    /\ expanded = <<>>
    /\ stdout = NoOutput
    /\ result = NoResult
    /\ viewer = NoViewer
    /\ error = "none"
    /\ td = EmptyTabularData
    /\ yielded = <<>>
    /\ gens = <<>>
    /\ tv = NoTreeViewer
    /\ tree = <<>>

NextItems ==
    \/ ItemsImport
    \/ TableReimport
    \/ TableGroup
    \/ TableItems
    \/ TableItemsNext

SpecItems == InitItems /\ [][NextItems]_vars

(***************************************************************************)
(* TreeViewer: the construction of the viewer fills the tree widget.       *)
(***************************************************************************)
TreeShow ==
    /\ pc = "new"
    /\ tv # NoTreeViewer
    /\ LET shown == CreateTree(tv)
       IN /\ tree' = shown.value
          /\ error' = shown.raised
          /\ pc' = IF shown.raised = "none" THEN "shown" ELSE "raised"
    /\ UNCHANGED <<form, configuration, action, expanded, stdout, result,
                   viewer, td, yielded, gens, tv>>

InitTree ==
    /\ pc = "new"
    /\ form = NoForm
    /\ configuration = [viewer |-> "json"]
    /\ action = NoAction
    /\ expanded = <<>>
    /\ stdout = NoOutput
    /\ result = NoResult
    /\ viewer = NoViewer
    /\ error = "none"
    /\ td = EmptyTabularData
    /\ yielded = <<>>
    /\ gens = <<>>
    /\ tv \in TreeViewers
    /\ tree = <<>>

NextTree == TreeShow

SpecTree == InitTree /\ [][NextTree]_vars

(***************************************************************************)
(* The program: main shows the form, runs the action the form created and  *)
(* shows its result in a viewer.                                           *)
(***************************************************************************)

\* Application.create_action: the button of the action.
CreateAction ==
    /\ pc = "form"
    /\ \E values \in [1..Len(form.options) ->
                         UNION {WidgetValues(form.options[i]) :
                                   i \in 1..Len(form.options)}] :
          /\ \A i \in 1..Len(form.options) :
                values[i] \in WidgetValues(form.options[i])
          /\ action' = NewAction(
                 form.command,
                 [i \in 1..Len(form.options) |->
                     [name |-> form.options[i].key, value |-> values[i]]],
                 configuration)
    /\ pc' = "closed"
    /\ UNCHANGED <<form, configuration, expanded, stdout, result, viewer,
                   error, td, yielded, gens, tv, tree>>

\* Application.cancel: the Cancel button.
Cancel ==
    /\ pc = "form"
    /\ pc' = "closed"
    /\ UNCHANGED <<form, configuration, action, expanded, stdout, result,
                   viewer, error, td, yielded, gens, tv, tree>>

\* The mutation of AfterForm that runs whatever the form did.
AfterFormAlwaysRun ==
    /\ pc = "closed"
    /\ pc' = "run"
    /\ action' = IF action = NoAction
                 THEN NewAction(form.command, <<>>, configuration)
                 ELSE action
    /\ UNCHANGED <<form, configuration, expanded, stdout, result, viewer,
                   error, td, yielded, gens, tv, tree>>

\* main, once the form is closed: if application.action, run it.
AfterForm ==
    /\ pc = "closed"
    /\ pc' = IF action # NoAction THEN "run" ELSE "exit"
    /\ UNCHANGED <<form, configuration, action, expanded, stdout, result,
                   viewer, error, td, yielded, gens, tv, tree>>

\* Action.run: subprocess.run(expanded, capture_output=True). An empty
\* vector raises IndexError; the launch may fail; otherwise the process
\* ends with some output.
RunProcess ==
    /\ pc = "exec"
    /\ IF expanded = <<>>
       THEN /\ error' = "IndexError"
            /\ pc' = "raised"
            /\ UNCHANGED stdout
       ELSE \/ /\ error' = "OSError"
               /\ pc' = "raised"
               /\ UNCHANGED stdout
            \/ /\ \E bytes \in Outputs : stdout' = PyBytes(bytes)
               /\ pc' = "dispatch"
               /\ UNCHANGED error
    /\ UNCHANGED <<form, configuration, action, expanded, result, viewer, td,
                   yielded, gens, tv, tree>>

\* Action.run, the end: the result for the configured viewer.
RunDispatch ==
    /\ pc = "dispatch"
    /\ LET returned == Dispatch(ValueOf(action).configuration,
                                ValueOf(stdout))
       IN /\ result' = returned.value
          /\ error' = returned.raised
          /\ pc' = IF returned.raised = "none" THEN "returned" ELSE "raised"
          /\ td' = IF TypeOf(returned.value) = "TabularData"
                   THEN ValueOf(returned.value) ELSE td
    /\ UNCHANGED <<form, configuration, action, expanded, stdout, viewer,
                   yielded, gens, tv, tree>>

\* main: the result window and the viewer of the configured kind. The
\* table viewer sets its headings and columns first (l.513-523), which a
\* heading that Tk reads as a display column out of range ends by TclError.
CreateViewer ==
    /\ pc = "returned"
    /\ LET viewer_type == Default(configuration, "viewer", "multiline")
       IN IF viewer_type = "table"
          THEN IF TableColumns(td).raised # "none"
               THEN /\ error' = TableColumns(td).raised
                    /\ pc' = "raised"
                    /\ UNCHANGED <<viewer, tv, tree, yielded, gens>>
               ELSE /\ gens' = <<NewGenerator>>
                    /\ yielded' = <<<<>>>>
                    /\ pc' = "inserting"
                    /\ UNCHANGED <<viewer, tv, tree, error>>
          ELSE IF viewer_type = "json"
          THEN LET created ==
                      [data |-> result,
                       collapsed |-> Default(configuration, "collapsed",
                                             FALSE),
                       key_values |-> Default(configuration, "key-values",
                                              PyNone)]
                   shown == CreateTree(created)
               IN /\ tv' = created
                  /\ tree' = shown.value
                  /\ error' = shown.raised
                  /\ viewer' = IF shown.raised = "none"
                               THEN [TreeViewer |-> <<>>] ELSE viewer
                  /\ pc' = IF shown.raised = "none" THEN "viewing"
                           ELSE "raised"
                  /\ UNCHANGED <<yielded, gens>>
          ELSE /\ viewer' = [MultilineViewer |-> [text |-> result]]
               /\ pc' = "viewing"
               /\ UNCHANGED <<tv, tree, error, yielded, gens>>
    /\ UNCHANGED <<form, configuration, action, expanded, stdout, result,
                   td>>

\* TableViewer.insert_data, one turn of its loop over insertable_items: the
\* generator runs to its next pair, which is inserted in the table widget;
\* at the end of the generator the viewer is built.
InsertData ==
    /\ pc = "inserting"
    /\ LET step == GeneratorNext(gens[1], td.data)
           insertion == TableInsertion(tree, step.item)
       IN /\ gens' = <<step.value>>
          /\ IF step.raised = "StopIteration"
             THEN /\ viewer' = [TableViewer |-> TableColumns(td).value]
                  /\ pc' = "viewing"
                  /\ UNCHANGED <<yielded, tree, error>>
             ELSE IF step.raised # "none"
             THEN /\ error' = step.raised
                  /\ pc' = "raised"
                  /\ UNCHANGED <<yielded, tree, viewer>>
             ELSE /\ yielded' = <<Append(yielded[1], step.item)>>
                  /\ IF Refused(tree, insertion)
                     THEN /\ error' = "TclError"
                          /\ pc' = "raised"
                          /\ UNCHANGED <<tree, viewer>>
                     ELSE /\ tree' = Append(tree, insertion)
                          /\ UNCHANGED <<pc, error, viewer>>
    /\ UNCHANGED <<form, configuration, action, expanded, stdout, result,
                   td, tv>>

\* The Close button of the viewer, then exit(0).
CloseViewer ==
    /\ pc = "viewing"
    /\ pc' = "exit"
    /\ UNCHANGED <<form, configuration, action, expanded, stdout, result,
                   viewer, error, td, yielded, gens, tv, tree>>

Init ==
    /\ pc = "form"
    /\ form \in Forms
    /\ configuration \in OutputConfigs
    /\ action = NoAction
    /\ expanded = <<>>
    /\ stdout = NoOutput
    /\ result = NoResult
    /\ viewer = NoViewer
    /\ error = "none"
    /\ td = EmptyTabularData
    /\ yielded = <<>>
    /\ gens = <<>>
    /\ tv = NoTreeViewer
    /\ tree = <<>>

Next ==
    \/ CreateAction
    \/ Cancel
    \/ AfterForm
    \/ RunExpand
    \/ RunProcess
    \/ RunDispatch
    \/ CreateViewer
    \/ InsertData
    \/ CloseViewer

Spec == Init /\ [][Next]_vars

(***************************************************************************)
(* Claims about the expander.                                              *)
(***************************************************************************)

\* The argument at position i is a single token whose binding is None.
IsNullToken(arguments, values, i) ==
    \E k \in 1..Len(values) :
        /\ arguments[i] = Token(values[k].name)
        /\ values[k].value = PyNone

\* The positions of the arguments that are not single tokens bound to None.
KeptPositions(arguments, values) ==
    {i \in 1..Len(arguments) : ~IsNullToken(arguments, values, i)}

\* The place in the vector of the kept argument i.
PlaceOf(arguments, values, i) ==
    Cardinality({j \in KeptPositions(arguments, values) : j <= i})

\* C1: a template that is exactly the token {x}, x bound, gives B[x] itself,
\* type and value unchanged; it is omitted when B[x] is None; the entries of
\* the other templates are all present, in their original relative order.
C1_SingleTokenRaw ==
    pc = "exec" =>
        LET arguments == ValueOf(action).arguments
            values == ValueOf(action).values
            kept == KeptPositions(arguments, values)
        IN /\ Len(expanded) = Cardinality(kept)
           /\ \A i \in kept :
                LET entry == expanded[PlaceOf(arguments, values, i)]
                IN /\ \A k \in 1..Len(values) :
                        arguments[i] = Token(values[k].name)
                            => entry = values[k].value
                   /\ (\A k \in 1..Len(values) :
                        arguments[i] # Token(values[k].name))
                            => entry = Expand(arguments[i], values)

\* C1 witness: a command with a single token bound to None, dropped, after a
\* single token bound to a text, kept as it is.
C1_Witness ==
    /\ pc = "exec"
    /\ LET arguments == ValueOf(action).arguments
           values == ValueOf(action).values
       IN /\ Len(arguments) = 2
          /\ IsNullToken(arguments, values, 2)
          /\ \E k \in 1..Len(values) :
                /\ arguments[1] = Token(values[k].name)
                /\ values[k].value = PyStr(Token(NameB))
                /\ expanded = <<values[k].value>>

\* The text of a binding when interpolated: None is the empty string.
TextOf(value) == IF value = PyNone THEN <<>> ELSE ValueOf(value)

\* One pass over the template, left to right: each occurrence of a bound
\* token is replaced by its bound value, the substituted text is not read
\* again.
RECURSIVE SubstituteOnce(_, _)
SubstituteOnce(template, values) ==
    IF template = <<>> THEN <<>>
    ELSE LET hits == {k \in 1..Len(values) :
                         StartsWith(template, Token(values[k].name))}
         IN IF hits = {}
            THEN <<Head(template)>> \o SubstituteOnce(Tail(template), values)
            ELSE LET k == CHOOSE h \in hits : \A m \in hits : h <= m
                 IN TextOf(values[k].value)
                    \o SubstituteOnce(
                           Drop(template, Len(Token(values[k].name))), values)

\* C2: a template with tokens embedded in other text has every occurrence
\* of every bound token replaced by its bound value, None by the empty
\* string, and its entry is never dropped from the vector.
C2_EmbeddedReplaced ==
    pc = "exec" =>
        LET arguments == ValueOf(action).arguments
            values == ValueOf(action).values
        IN \A i \in 1..Len(arguments) :
              ExactBindings(arguments[i], values) = {}
                => /\ i \in KeptPositions(arguments, values)
                   /\ expanded[PlaceOf(arguments, values, i)]
                        = PyStr(SubstituteOnce(arguments[i], values))

\* The bindings are all texts.
AllTexts(values) ==
    \A k \in 1..Len(values) : TypeOf(values[k].value) = "str"

\* The same mapping, its names iterated in any order.
Reordered(values) == {b \in Bindings : Range(b) = Range(values)}

\* C11: for a template and a set of text bindings, the result of expand is
\* the same in every iteration order of the mapping, and the text put in
\* for a token is not substituted again: a bound value holding the token of
\* another binding is in the result as it is.
C11_OrderIndependent ==
    pc = "exec" =>
        LET arguments == ValueOf(action).arguments
            values == ValueOf(action).values
        IN AllTexts(values) =>
              \A i \in 1..Len(arguments) :
                 LET entry == expanded[PlaceOf(arguments, values, i)]
                 IN /\ \A other \in Reordered(values) :
                          Expand(arguments[i], other) = entry
                    /\ ExactBindings(arguments[i], values) = {}
                          => entry = PyStr(SubstituteOnce(arguments[i],
                                                          values))

(***************************************************************************)
(* Claims about the tabular data model.                                    *)
(***************************************************************************)

\* A cell that forces its column to STRING: not blank, not a number.
IsTextCell(cell) == Strip(cell) # <<>> /\ ~IsFloat(cell)

\* C4: after import_data of a table with at least one data row, a column is
\* STRING exactly when one of its cells, in any row, is neither blank nor
\* numeric; otherwise it is NUMBER.
C4_ColumnTypes ==
    (pc = "imported" /\ ValueOf(td.data) # <<>>) =>
        /\ Len(td.column_types) = Len(td.headings)
        /\ \A column \in 1..Len(td.headings) :
              /\ td.column_types[column] \in {NUMBER, STRING_TYPE}
              /\ td.column_types[column] = STRING_TYPE
                    <=> \E r \in 1..Len(ValueOf(td.data)) :
                           /\ column <= Len(ValueOf(td.data)[r])
                           /\ IsTextCell(ValueOf(td.data)[r][column])

\* C4 witness: two columns and two rows; the first column has a text cell in
\* its second row only, the second column has a number and a blank.
C4_Witness ==
    /\ pc = "imported"
    /\ Len(td.headings) = 2
    /\ Len(ValueOf(td.data)) = 2
    /\ ValueOf(td.data)[1] = << <<"1">>, <<"1">> >>
    /\ ValueOf(td.data)[2] = << <<"x">>, <<" ">> >>
    /\ td.column_types = <<STRING_TYPE, NUMBER>>

\* The column is an index of the headings and of every row of the table.
IsColumnOf(table, column) ==
    /\ TypeOf(table.data) = "list"
    /\ ValueOf(table.data) # <<>>
    /\ column \in 0..(Len(table.headings) - 1)
    /\ \A r \in 1..Len(ValueOf(table.data)) :
          column < Len(ValueOf(table.data)[r])

WithoutCell(row, column) ==
    [i \in 1..(Len(row) - 1) |-> IF i <= column THEN row[i] ELSE row[i + 1]]

\* The rows of a group as the claim describes them: the rows whose cell at
\* the column is the key, in their order, each without that cell.
RECURSIVE RowsKeyed(_, _, _)
RowsKeyed(rows, column, key) ==
    IF rows = <<>> THEN <<>>
    ELSE (IF Head(rows)[column + 1] = key
          THEN <<WithoutCell(Head(rows), column)>> ELSE <<>>)
            \o RowsKeyed(Tail(rows), column, key)

FirstRowKeyed(rows, column, key) ==
    CHOOSE r \in 1..Len(rows) :
        /\ rows[r][column + 1] = key
        /\ \A q \in 1..(r - 1) : rows[q][column + 1] # key

GroupedBy(old, new, column) ==
    LET rows == ValueOf(old.data)
        groups == ValueOf(new.data)
    IN /\ Len(new.headings) = Len(old.headings) - 1
       /\ Len(new.column_types) = Len(old.column_types) - 1
       /\ Len(new.maximum_lengths) = Len(old.maximum_lengths) - 1
       /\ Len(new.headings) = Len(new.column_types)
       /\ Len(new.headings) = Len(new.maximum_lengths)
       /\ TypeOf(new.data) = "dict"
       /\ \A g, h \in 1..Len(groups) : groups[g].key = groups[h].key => g = h
       /\ \A r \in 1..Len(rows) :
             \E g \in 1..Len(groups) : groups[g].key = rows[r][column + 1]
       /\ \A g \in 1..Len(groups) :
             /\ groups[g].value # <<>>
             /\ groups[g].value = RowsKeyed(rows, column, groups[g].key)
       /\ \A g, h \in 1..Len(groups) :
             g < h => FirstRowKeyed(rows, column, groups[g].key)
                        < FirstRowKeyed(rows, column, groups[h].key)

\* C5: group_by(c), c a column of the imported table, completes; headings,
\* column_types and maximum_lengths lose one entry each and stay of equal
\* length; every row is in exactly one group, the one keyed by its cell at
\* c, without that cell; groups are in order of first appearance and rows
\* keep their order inside a group.
C5_GroupBy ==
    [][(/\ pc = "imported"
        /\ pc' # "imported"
        /\ "group-by" \in DOMAIN configuration
        /\ IsColumnOf(td, ValueOf(configuration["group-by"])))
          => /\ error' = "none"
             /\ GroupedBy(td, td', ValueOf(configuration["group-by"]))]_vars

\* C5 witness: a table of two columns grouped by its second column into two
\* groups.
C5_Witness ==
    /\ pc = "ready"
    /\ "group-by" \in DOMAIN configuration
    /\ ValueOf(configuration["group-by"]) = 1
    /\ TypeOf(td.data) = "dict"
    /\ Len(ValueOf(td.data)) = 2
    /\ td.headings = << <<"h">> >>
    /\ ValueOf(td.data)[1] = [key |-> <<"x">>, value |-> << << <<"1">> >> >>]

\* The place of the name of the g-th group in the sequence yielded.
RECURSIVE PlaceOfGroup(_, _)
PlaceOfGroup(groups, g) ==
    IF g = 1 THEN 1
    ELSE PlaceOfGroup(groups, g - 1) + 1 + Len(groups[g - 1].value)

\* The pairs of a whole call over `data`, by their places.
ExpectedLength(data) ==
    IF TypeOf(data) = "dict"
    THEN PlaceOfGroup(ValueOf(data), Len(ValueOf(data)) + 1) - 1
    ELSE Len(ValueOf(data))

\* `items` are the first pairs of a call over `data`.
FirstItemsOf(items, data) ==
    /\ Len(items) <= ExpectedLength(data)
    /\ IF TypeOf(data) = "dict"
       THEN LET groups == ValueOf(data)
            IN \A g \in 1..Len(groups) :
                  LET place == PlaceOfGroup(groups, g)
                  IN /\ place <= Len(items) =>
                          items[place] = [parent |-> <<>>,
                                          item |-> PyStr(groups[g].key)]
                     /\ \A j \in 1..Len(groups[g].value) :
                           place + j <= Len(items) =>
                              items[place + j] =
                                 [parent |-> groups[g].key,
                                  item |-> PyList(groups[g].value[j])]
       ELSE \A r \in 1..Len(items) :
               items[r] = [parent |-> <<>>,
                           item |-> PyList(ValueOf(data)[r])]

\* C6: over a grouped table insertable_items yields, group after group in
\* the order of the groups, the pair (root, name) and right after it the
\* pairs (name, row) of the rows of the group in their order; over a flat
\* table the pair (root, row) of every row in order; every call yields the
\* same sequence from the start. The calls are those over the table as it
\* is: the ones whose generator iterates the data the table holds.
C6_InsertableItems ==
    \A call \in 1..Len(gens) :
        LET items == yielded[call]
        IN /\ gens[call].state = "created" => items = <<>>
           /\ (gens[call].live /\ error = "none") =>
                 /\ FirstItemsOf(items, td.data)
                 /\ gens[call].state = "done"
                       => Len(items) = ExpectedLength(td.data)
                 /\ \A other \in 1..Len(gens) :
                       (gens[other].live /\ gens[other].state = "done")
                          => items = SubSeq(yielded[other], 1, Len(items))

\* C6 witness: two calls, taken to their end, on a table of two groups.
C6_Witness ==
    /\ Len(gens) = 2
    /\ \A call \in 1..2 : gens[call].state = "done" /\ gens[call].live
    /\ error = "none"
    /\ TypeOf(td.data) = "dict"
    /\ Len(ValueOf(td.data)) = 2
    /\ Len(yielded[1]) = 4
    /\ Len(yielded[2]) = 4

\* C6 witness, flat table: two calls, taken to their end, on two rows.
C6_WitnessFlat ==
    /\ Len(gens) = 2
    /\ \A call \in 1..2 : gens[call].state = "done" /\ gens[call].live
    /\ error = "none"
    /\ TypeOf(td.data) = "list"
    /\ Len(yielded[2]) = 2

\* C12: in the sequence yielded over a grouped table, whatever the group
\* keys, the empty string included, the parent of every pair of a data row
\* is not the root marker and is a name yielded before it in a pair
\* (root, name): no data row is a direct child of the root.
C12_RowsUnderGroups ==
    \A call \in 1..Len(yielded) :
        LET items == yielded[call]
        IN TypeOf(gens[call].source) = "dict" =>
              \A place \in 1..Len(items) :
                 TypeOf(items[place].item) = "list" =>
                    /\ items[place].parent # RootMarker
                    /\ \E before \in 1..(place - 1) :
                          items[before] =
                             [parent |-> RootMarker,
                              item |-> PyStr(items[place].parent)]

(***************************************************************************)
(* Claims about the hierarchical renderer.                                 *)
(***************************************************************************)

\* The places in the widget of the insertions under `parent`, in order.
ChildPlaces(widget, parent) ==
    LET IsChild(place) == widget[place].parent = parent
    IN SelectSeq([place \in 1..Len(widget) |-> place], IsChild)

\* An object that contains all the names.
HasAllNames(value, names) ==
    /\ TypeOf(value) = "dict"
    /\ \A i \in 1..Len(names) :
          \E k \in 1..Len(ValueOf(value)) : ValueOf(value)[k].key = names[i]

\* The elements of an array shown under `parent`: one node each, in array
\* order; an element with all the names is a node under `parent` itself,
\* labelled by its value at the first name, carrying its values at the
\* other names, with nothing under it.
ArrayShownUnder(elements, parent, names) ==
    LET places == ChildPlaces(tree, parent)
    IN /\ Len(places) = Len(elements)
       /\ \A i \in 1..Len(elements) :
             HasAllNames(elements[i], names) =>
                /\ tree[places[i]] =
                      [parent |-> parent,
                       text |-> Lookup(elements[i], names[1]),
                       values |-> [j \in 1..(Len(names) - 1) |->
                                      Lookup(elements[i], names[j + 1])],
                       open |-> Absent]
                /\ ChildPlaces(tree, ItemId(places[i])) = <<>>

\* The arrays of the data, at the root and one level below it, are shown
\* as C8 says.
RecordsShown ==
    LET names == ValueOf(tv.key_values)
        top == ValueOf(tv.data)
        places == ChildPlaces(tree, RootItem)
        Nested(k) == IF TypeOf(tv.data) = "list" THEN top[k]
                     ELSE top[k].value
    IN /\ Len(places) = Len(top)
       /\ TypeOf(tv.data) = "list"
             => ArrayShownUnder(top, RootItem, names)
       /\ \A k \in 1..Len(top) :
             TypeOf(Nested(k)) = "list"
                => ArrayShownUnder(ValueOf(Nested(k)),
                                   ItemId(places[k]), names)

\* display_data was called with key-values on an object or an array that
\* is not itself a record: the widget was built with its headings.
RenderedWithKeyValues ==
    /\ pc \in {"shown", "raised"}
    /\ tv.key_values # PyNone
    /\ TreeHeadings(tv).raised = "none"
    /\ ~HasAllNames(tv.data, ValueOf(tv.key_values))
    /\ IsContainer(tv.data)

\* C8: with key-values configured, every element of an array that is an
\* object containing all the key-values names gives exactly one node,
\* directly under the parent of the array, labelled by its value at the
\* first name and carrying its values at the other names in order; nothing
\* is shown under it; the nodes of the elements are siblings in array
\* order. Stated of the widget once display_data has ended, by a return or
\* by an exception, for the array at the root and for the arrays one level
\* below it.
C8_KeyValuesRecords == RenderedWithKeyValues => RecordsShown

\* C8 where display_data returned, which it does when no record it reaches
\* has null at the first name: the records are shown as C8 says.
C8_RecordsOfReturn == (RenderedWithKeyValues /\ pc = "shown") => RecordsShown

\* C8, the case of a null: the second of two records has null at the
\* first name; the first record is shown and the rendering ends there.
C8_NullLabel ==
    /\ pc = "raised"
    /\ error = "TclError"
    /\ tv.key_values = PyList(<<KeyId>>)
    /\ TypeOf(tv.data) = "list"
    /\ Len(ValueOf(tv.data)) = 2
    /\ ValueOf(tv.data)[2] = PyDict(<<[key |-> KeyId, value |-> PyNone]>>)
    /\ Len(tree) = 1

\* C8 witness: an array of two records with both key-values names, shown
\* as two nodes under the root.
C8_Witness ==
    /\ pc = "shown"
    /\ tv.key_values = PyList(<<KeyId, KeyN>>)
    /\ TypeOf(tv.data) = "list"
    /\ Len(ValueOf(tv.data)) = 2
    /\ \A i \in 1..2 : HasAllNames(ValueOf(tv.data)[i], ValueOf(tv.key_values))
    /\ Len(tree) = 2
    /\ tree[1].text = PyStr(<<"x">>)
    /\ tree[2].values = <<PyInt(1)>>

\* C8 witness, nested: {"n": [{"id": 1}, {"id": "x"}]} gives the container
\* n and, under it, one node per record of the array.
C8_WitnessNested ==
    /\ pc = "shown"
    /\ tv.key_values = PyList(<<KeyId>>)
    /\ tv.data = PyDict(<<[key |-> KeyN,
                          value |-> PyList(<<
                              PyDict(<<[key |-> KeyId,
                                        value |-> PyInt(1)]>>),
                              PyDict(<<[key |-> KeyId,
                                        value |-> PyStr(<<"x">>)]>>)>>)]>>)
    /\ Len(tree) = 3
    /\ tree[2] = [parent |-> ItemId(1), text |-> PyInt(1), values |-> <<>>,
                  open |-> Absent]
    /\ tree[3] = [parent |-> ItemId(1), text |-> PyStr(<<"x">>),
                  values |-> <<>>, open |-> Absent]

\* "<count> item(s)" for a count below ten.
CountText(count) ==
    PyStr(<<DigitChars[count + 1]>>
            \o <<" ", "i", "t", "e", "m", "(", "s", ")">>)

\* The node of a scalar under `parent`, labelled `label`.
IsLeaf(node, parent, label, value) ==
    node = [parent |-> parent, text |-> label, values |-> <<value>>,
            open |-> Absent]

\* The entries of an object shown under `parent`, no key-values configured:
\* one node per key, in declared order. A key whose value is an object or
\* an array gives a container labelled by the key, carrying the count of
\* its direct children, open when not collapsed, and the insertions for the
\* value follow it at once, under it. Another key gives a leaf.
RECURSIVE ObjectShownUnder(_, _)
ObjectShownUnder(entries, parent) ==
    LET places == ChildPlaces(tree, parent)
    IN /\ Len(places) = Len(entries)
       /\ \A k \in 1..Len(entries) :
             LET node == tree[places[k]]
                 value == entries[k].value
                 under == ChildPlaces(tree, ItemId(places[k]))
             IN IF IsContainer(value)
                THEN /\ node = [parent |-> parent,
                                text |-> PyStr(entries[k].key),
                                values |-> <<CountText(Len(under))>>,
                                open |-> ~tv.collapsed]
                     /\ Len(under) = Len(ValueOf(value))
                     /\ under # <<>> => under[1] = places[k] + 1
                     /\ \A place \in (places[k] + 1)..
                                     (IF k < Len(entries) THEN places[k + 1] - 1
                                      ELSE IF parent = RootItem THEN Len(tree)
                                      ELSE places[k]) :
                           /\ tree[place].parent # RootItem
                           /\ tree[place].parent.item >= places[k]
                     /\ IF TypeOf(value) = "dict"
                        THEN ObjectShownUnder(ValueOf(value),
                                              ItemId(places[k]))
                        ELSE \A i \in 1..Len(under) :
                                tree[under[i]].text = PyInt(i - 1)
                ELSE /\ IsLeaf(node, parent, PyStr(entries[k].key), value)
                     /\ under = <<>>

\* C9: an object rendered with no key-values gives its insertions depth
\* first in declared key order: a container node labelled by the key with
\* "<count> item(s)", count the number of its direct children, open exactly
\* when collapsed was not requested, followed at once by the insertions for
\* its value under it, for a key whose value is an object or an array; a
\* leaf labelled by the key carrying the value for any other key.
C9_ObjectDepthFirst ==
    (/\ pc = "shown"
     /\ tv.key_values = PyNone
     /\ TypeOf(tv.data) = "dict") =>
        ObjectShownUnder(ValueOf(tv.data), RootItem)

\* C9 witness: {"n": 1, "id": {"n": "x"}} gives the leaf n, the container
\* id with "1 item(s)", and the leaf n under it.
C9_Witness ==
    /\ pc = "shown"
    /\ tv.key_values = PyNone
    /\ ~tv.collapsed
    /\ tv.data = PyDict(<<[key |-> KeyN, value |-> PyInt(1)],
                         [key |-> KeyId,
                          value |-> PyDict(<<[key |-> KeyN,
                                              value |-> PyStr(<<"x">>)]>>)]>>)
    /\ tree = <<[parent |-> RootItem, text |-> PyStr(KeyN),
                 values |-> <<PyInt(1)>>, open |-> Absent],
                [parent |-> RootItem, text |-> PyStr(KeyId),
                 values |-> <<PyStr(<<"1", " ", "i", "t", "e", "m", "(",
                                      "s", ")">>)>>,
                 open |-> TRUE],
                [parent |-> ItemId(2), text |-> PyStr(KeyN),
                 values |-> <<PyStr(<<"x">>)>>, open |-> Absent]>>

(***************************************************************************)
(* Claims about the program: the result of Action.run and the viewer.      *)
(***************************************************************************)

\* Action.run has ended, by a return or by an exception.
RunEnded ==
    \/ pc = "returned"
    \/ pc = "raised" /\ stdout # NoOutput /\ result = NoResult

\* C3: the captured output goes to one interpreter chosen by the viewer kind
\* of the output configuration: 'table' gives a tabular data model, 'json'
\* the decoded JSON value, and any other kind, or no viewer key at all,
\* returns the captured output untouched and raises nothing.
C3_DispatchByViewer ==
    RunEnded =>
        LET kind == Default(configuration, "viewer", "")
        IN IF kind = "table"
           THEN error = "none" => TypeOf(result) = "TabularData"
           ELSE IF kind = "json"
           THEN error = "none" => result = JsonLoads(ValueOf(stdout)).value
           ELSE error = "none" /\ result = stdout

\* The captured output is text of fewer than two lines.
FewLines(bytes) ==
    /\ Decode(bytes).raised = "none"
    /\ Len(SplitLines(Decode(bytes).value)) < 2

\* C7: with the table viewer and a captured output of fewer than 2 lines,
\* the tabular data model stays empty and nothing is raised, whatever the
\* output configuration, a group-by column included.
C7_FewLinesEmpty ==
    (RunEnded /\ Default(configuration, "viewer", "") = "table"
              /\ FewLines(ValueOf(stdout))) =>
        /\ error = "none"
        /\ result = [TabularData |-> EmptyTabularData]

\* C10: a viewer exists only after the form was submitted and Action.run
\* returned a result; a cancelled form runs no command and leads to exit
\* without a viewer; a failure of Action.run ends the program without a
\* viewer.
C10_ViewerAfterRun ==
    /\ [](viewer # NoViewer =>
             /\ action # NoAction
             /\ stdout # NoOutput
             /\ result # NoResult
             /\ error = "none")
    /\ [](action = NoAction => stdout = NoOutput /\ viewer = NoViewer)
    /\ [][(pc = "closed" /\ action = NoAction) => pc' = "exit"]_vars
    /\ [][(pc \in {"run", "exec", "dispatch"} /\ error' # "none") =>
             (pc' = "raised" /\ viewer' = NoViewer)]_vars
    /\ [][pc # "raised"]_vars

\* A table viewer shows the grouped rows of a submitted command.
C10_Witness ==
    /\ pc = "viewing"
    /\ action # NoAction
    /\ TypeOf(viewer) = "TableViewer"
    /\ TypeOf(td.data) = "dict"
    /\ tree # <<>>

====
